---- MODULE Spec2Model ----
(***************************************************************************)
(* Model of pallets/template/src/lib.rs: the template pallet with its      *)
(* scalar storage value Something, its four dispatchable calls, the        *)
(* offchain-indexing write path and the offchain worker's read-back.       *)
(*                                                                         *)
(* TLC's integers are 32-bit signed, so a u32 whose overflow matters       *)
(* (Something) is held as two 16-bit halves; block numbers and the u64     *)
(* argument of `extrinsic` are held as naturals below 2^31 and are turned  *)
(* into their little-endian SCALE bytes by the codec operators below.      *)
(***************************************************************************)
EXTENDS Integers, Sequences, FiniteSets, TLC

VARIABLES
    Something,      \* StorageValue<_, u32>: <<>> is None, <<v>> is Some(v)
    events,         \* events deposited so far, oldest first
    offchainDb,     \* node-local persistent offchain storage: key bytes -> value bytes
    block_number,   \* frame_system block_number()
    phase,          \* "executing" | "imported" | "worked": where the host is in the block
    log,            \* the worker's log::info! lines, oldest first
    ncalls,         \* number of calls dispatched so far
    nblocks,        \* number of block advances so far
    last,           \* the most recent dispatch: call, origin, arguments, result, set
                    \* performed, height, and whether it repeated the one before
    derived,        \* every <<height, key>> that derived_key has produced
    written,        \* height -> IndexingData last persisted by the write path and still retained
    access          \* key -> how many write path calls (w) and worker runs (r) have used it

vars == <<Something, events, offchainDb, block_number, phase, log, ncalls, nblocks,
          last, derived, written, access>>

-----------------------------------------------------------------------------
(* Bounds of the model *)

\* calls dispatched in one run
MaxCalls == 2

\* block advances in one run
MaxBlocks == 1

-----------------------------------------------------------------------------
(* Option and Result values *)

None == <<>>

Some(v) == <<v>>

IsSome(o) == o # <<>>

Unwrap(o) == o[1]

-----------------------------------------------------------------------------
(* u32 as two 16-bit halves *)

Half == 65536

U32(hi, lo) == [hi |-> hi, lo |-> lo]

U32Max == U32(Half - 1, Half - 1)

\* old.checked_add(1) gone wrong: wrapping_add(1)
wrapping_add_one(old) ==
    IF old.lo < Half - 1 THEN Some(U32(old.hi, old.lo + 1))
    ELSE IF old.hi < Half - 1 THEN Some(U32(old.hi + 1, 0))
    ELSE Some(U32(0, 0))

\* old.checked_add(1): None on overflow
checked_add_one(old) ==
    IF old.lo < Half - 1 THEN Some(U32(old.hi, old.lo + 1))
    ELSE IF old.hi < Half - 1 THEN Some(U32(old.hi + 1, 0))
    ELSE None

-----------------------------------------------------------------------------
(* SCALE codec *)

RECURSIVE LeBytes(_, _)
\* the w little-endian bytes of n
LeBytes(n, w) == IF w = 0 THEN <<>> ELSE <<n % 256>> \o LeBytes(n \div 256, w - 1)

RECURSIVE FromLe(_)
\* the number a little-endian byte string stands for
FromLe(bytes) == IF bytes = <<>> THEN 0 ELSE bytes[1] + 256 * FromLe(Tail(bytes))

\* Compact<u32> length prefix of a Vec (lengths below 2^14 suffice here)
compact_len(n) ==
    IF n < 64 THEN <<4 * n>>
    ELSE <<(4 * (n % 64)) + 1, n \div 64>>

\* Vec<u8>::encode
encode_vec(bytes) == compact_len(Len(bytes)) \o bytes

\* u64::encode
encode_u64(n) == LeBytes(n, 8)

\* Compact<u32>::decode of a length prefix: [ok, value, rest]. The one-byte and
\* two-byte modes are decoded in full (a two-byte form of a value below 64 is
\* rejected as non-canonical). A four-byte or big-integer prefix is either
\* non-canonical or announces at least 2^14 bytes, more than any value stored
\* here holds, so the Vec decode that uses it fails either way.
decode_compact(input) ==
    IF input = <<>> THEN [ok |-> FALSE, value |-> 0, rest |-> <<>>]
    ELSE LET mode == input[1] % 4
         IN  CASE mode = 0 ->
                    [ok |-> TRUE, value |-> input[1] \div 4, rest |-> Tail(input)]
               [] mode = 1 /\ Len(input) >= 2
                           /\ FromLe(SubSeq(input, 1, 2)) \div 4 >= 64 ->
                    [ok |-> TRUE, value |-> FromLe(SubSeq(input, 1, 2)) \div 4,
                     rest |-> SubSeq(input, 3, Len(input))]
               [] OTHER -> [ok |-> FALSE, value |-> 0, rest |-> <<>>]

\* Vec<u8>::decode: [ok, value, rest]
decode_vec(input) ==
    LET n == decode_compact(input)
    IN  IF ~n.ok \/ Len(n.rest) < n.value
        THEN [ok |-> FALSE, value |-> <<>>, rest |-> <<>>]
        ELSE [ok |-> TRUE, value |-> SubSeq(n.rest, 1, n.value),
              rest |-> SubSeq(n.rest, n.value + 1, Len(n.rest))]

\* u64::decode: [ok, value, rest]
decode_u64(input) ==
    IF Len(input) < 8 THEN [ok |-> FALSE, value |-> 0, rest |-> <<>>]
    ELSE [ok |-> TRUE, value |-> FromLe(SubSeq(input, 1, 8)),
          rest |-> SubSeq(input, 9, Len(input))]

-----------------------------------------------------------------------------
(* The pallet's constants and types *)

\* b"my_pallet::indexing1"
ONCHAIN_TX_KEY ==
    <<109, 121, 95, 112, 97, 108, 108, 101, 116, 58, 58, 105, 110, 100, 101, 120,
      105, 110, 103, 49>>

\* b"/"
Slash == <<47>>

\* b"write_key_to_ocs"
TagWriteKey ==
    <<119, 114, 105, 116, 101, 95, 107, 101, 121, 95, 116, 111, 95, 111, 99, 115>>

\* b"submit_number_unsigned"
TagSubmitNumber ==
    <<115, 117, 98, 109, 105, 116, 95, 110, 117, 109, 98, 101, 114, 95, 117, 110,
      115, 105, 103, 110, 101, 100>>

\* An IndexingData value is the tuple of the fields its constructor was given:
\* <<tag, number>> in `extrinsic`; <<tag>> alone in write_key_to_ocs, whose
\* constructor call leaves the u64 field of the declared struct out.

\* #[derive(Encode)] for IndexingData: the fields' encodings, in order
encode_IndexingData(data) ==
    encode_vec(data[1]) \o (IF Len(data) >= 2 THEN encode_u64(data[2]) ELSE <<>>)

\* #[derive(Decode)] for struct IndexingData(Vec<u8>, u64): [ok, value]
decode_IndexingData(input) ==
    LET tag == decode_vec(input)
        number == decode_u64(tag.rest)
    IN  IF tag.ok /\ number.ok
        THEN [ok |-> TRUE, value |-> <<tag.value, number.value>>]
        ELSE [ok |-> FALSE, value |-> <<>>]

\* Event::SomethingStored { something, who }
SomethingStored(something, who) ==
    [name |-> "SomethingStored", something |-> something, who |-> who]

-----------------------------------------------------------------------------
(* Inputs *)

Accounts == {"alice", "bob"}

NoAccount == "-"

\* RawOrigin: Signed(who), None (an unsigned extrinsic), Root
Origins ==
    {[kind |-> "Signed", who |-> a] : a \in Accounts}
        \cup {[kind |-> "None", who |-> NoAccount], [kind |-> "Root", who |-> NoAccount]}

\* arguments of do_something: 41, 65535 (a carry into the high half), max - 1, max
U32Inputs == {U32(0, 41), U32(0, Half - 1), U32(Half - 1, Half - 2), U32Max}

\* arguments of extrinsic
U64Inputs == {0, 258}

\* blocks that pass between two blocks the model looks at: the blocks skipped
\* hold no call of this pallet and their worker run is not observed
Strides == {1, 256}

-----------------------------------------------------------------------------
(* Helpers of the pallet *)

\* encoded_bn gone wrong: the block number cut down to its lowest byte
encoded_bn_truncated(bn) == LeBytes(bn, 1)

\* T::BlockNumber::using_encoded: the block number's SCALE bytes (u32, fixed width)
encoded_bn(bn) == LeBytes(bn, 4)

\* Pallet::derived_key
derived_key(bn) == ONCHAIN_TX_KEY \o Slash \o encoded_bn(bn)

\* ensure_signed gone wrong: Root passes too (as ensure_signed_or_root would let it)
ensure_signed_or_root(origin) ==
    IF origin.kind \in {"Signed", "Root"} THEN [ok |-> TRUE, who |-> origin.who]
    ELSE [ok |-> FALSE, who |-> NoAccount]

\* ensure_signed(origin): [ok, who]; not ok is Err(BadOrigin)
ensure_signed(origin) ==
    IF origin.kind = "Signed" THEN [ok |-> TRUE, who |-> origin.who]
    ELSE [ok |-> FALSE, who |-> NoAccount]

\* offchain_index_set gone wrong: the new bytes are appended to an older record
offchain_index_append(db, key, value, persisted) ==
    IF persisted
    THEN [k \in DOMAIN db \cup {key} |->
             IF k # key THEN db[k]
             ELSE IF key \in DOMAIN db THEN db[key] \o value ELSE value]
    ELSE db

\* offchain_index_set gone wrong: a record already there is kept (insert if absent)
offchain_index_set_if_absent(db, key, value, persisted) ==
    IF persisted /\ key \notin DOMAIN db
    THEN [k \in DOMAIN db \cup {key} |-> IF k = key THEN value ELSE db[k]]
    ELSE db

\* offchain_index::set(&key, &value) as seen by the node's offchain database:
\* the record is put under key, replacing any older one, unless the node drops
\* the write (offchain indexing disabled, database failure); it returns ()
offchain_index_set(db, key, value, persisted) ==
    IF persisted
    THEN [k \in DOMAIN db \cup {key} |-> IF k = key THEN value ELSE db[k]]
    ELSE db

\* storage_ref_get gone wrong: an undecodable record reads as IndexingData::default()
storage_ref_get_or_default(db, key) ==
    IF key \notin DOMAIN db THEN [ok |-> TRUE, value |-> None]
    ELSE LET d == decode_IndexingData(db[key])
         IN  IF d.ok THEN [ok |-> TRUE, value |-> Some(d.value)]
             ELSE [ok |-> TRUE, value |-> Some(<<<<>>, 0>>)]

\* StorageValueRef::persistent(&key).get::<IndexingData>(): [ok, value], that is
\* Ok(None) for no record, Ok(Some(data)), or not ok for Err(Undecodable)
storage_ref_get(db, key) ==
    IF key \notin DOMAIN db THEN [ok |-> TRUE, value |-> None]
    ELSE LET d == decode_IndexingData(db[key])
         IN  IF d.ok THEN [ok |-> TRUE, value |-> Some(d.value)]
             ELSE [ok |-> FALSE, value |-> None]

\* what a dispatchable call leaves behind: its DispatchResult, the chain state,
\* the offchain database, and the set it handed to offchain_index (if any)
Outcome(ret, something, evs, db, set) ==
    [ret |-> ret, Something |-> something, events |-> evs, offchainDb |-> db, set |-> set]

Rejected == Outcome("BadOrigin", Something, events, offchainDb, None)

-----------------------------------------------------------------------------
(* The dispatchable calls, each over the current state *)

\* do_something gone wrong: the value is put only while the storage is empty
do_something_keep_existing(origin, something) ==
    LET who == ensure_signed(origin)
    IN  IF ~who.ok THEN Rejected
        ELSE Outcome("Ok", IF IsSome(Something) THEN Something ELSE Some(something),
                     Append(events, SomethingStored(something, who.who)),
                     offchainDb, None)

\* Pallet::do_something(origin, something)
do_something(origin, something) ==
    LET who == ensure_signed(origin)
    IN  IF ~who.ok THEN Rejected
        ELSE Outcome("Ok", Some(something),
                     Append(events, SomethingStored(something, who.who)),
                     offchainDb, None)

\* cause_error gone wrong: an unset value is read as 0 (a ValueQuery read)
cause_error_value_query(origin) ==
    LET who == ensure_signed(origin)
        old == IF IsSome(Something) THEN Unwrap(Something) ELSE U32(0, 0)
        new == checked_add_one(old)
    IN  IF ~who.ok THEN Rejected
        ELSE IF ~IsSome(new)
        THEN Outcome("StorageOverflow", Something, events, offchainDb, None)
        ELSE Outcome("Ok", new, events, offchainDb, None)

\* cause_error gone wrong: the incremented value is never put
cause_error_no_put(origin) ==
    LET who == ensure_signed(origin)
    IN  IF ~who.ok THEN Rejected
        ELSE IF ~IsSome(Something)
        THEN Outcome("NoneValue", Something, events, offchainDb, None)
        ELSE IF ~IsSome(checked_add_one(Unwrap(Something)))
        THEN Outcome("StorageOverflow", Something, events, offchainDb, None)
        ELSE Outcome("Ok", Something, events, offchainDb, None)

\* Pallet::cause_error(origin)
cause_error(origin) ==
    LET who == ensure_signed(origin)
    IN  IF ~who.ok THEN Rejected
        ELSE IF ~IsSome(Something)
        THEN Outcome("NoneValue", Something, events, offchainDb, None)
        ELSE LET new == checked_add_one(Unwrap(Something))
             IN  IF ~IsSome(new)
                 THEN Outcome("StorageOverflow", Something, events, offchainDb, None)
                 ELSE Outcome("Ok", new, events, offchainDb, None)

\* write_key_to_ocs gone wrong: the key is derived from the parent block's number
write_key_to_ocs_parent_key(origin, persisted) ==
    LET who == ensure_signed(origin)
        key == derived_key(block_number - 1)
        data == <<TagWriteKey>>
    IN  IF ~who.ok THEN Rejected
        ELSE Outcome("Ok", Something, events,
                     offchain_index_set(offchainDb, key, encode_IndexingData(data), persisted),
                     Some([key |-> key, data |-> data, persisted |-> persisted]))

\* write_key_to_ocs gone wrong: a dropped write is returned as an error
write_key_to_ocs_propagating(origin, persisted) ==
    LET who == ensure_signed(origin)
        key == derived_key(block_number)
        data == <<TagWriteKey>>
    IN  IF ~who.ok THEN Rejected
        ELSE Outcome(IF persisted THEN "Ok" ELSE "Other", Something, events,
                     offchain_index_set(offchainDb, key, encode_IndexingData(data), persisted),
                     Some([key |-> key, data |-> data, persisted |-> persisted]))

\* Pallet::write_key_to_ocs(origin); persisted: whether the node keeps the write
write_key_to_ocs(origin, persisted) ==
    LET who == ensure_signed(origin)
        key == derived_key(block_number)
        data == <<TagWriteKey>>
    IN  IF ~who.ok THEN Rejected
        ELSE Outcome("Ok", Something, events,
                     offchain_index_set(offchainDb, key, encode_IndexingData(data), persisted),
                     Some([key |-> key, data |-> data, persisted |-> persisted]))

\* extrinsic gone wrong: it also deposits SomethingStored, as do_something does
extrinsic_depositing(origin, number, persisted) ==
    LET who == ensure_signed(origin)
        key == derived_key(block_number)
        data == <<TagSubmitNumber, number>>
    IN  IF ~who.ok THEN Rejected
        ELSE Outcome("Ok", Something,
                     Append(events, SomethingStored(U32(0, 0), who.who)),
                     offchain_index_set(offchainDb, key, encode_IndexingData(data), persisted),
                     Some([key |-> key, data |-> data, persisted |-> persisted]))

\* Pallet::extrinsic(origin, number); persisted: whether the node keeps the write
extrinsic(origin, number, persisted) ==
    LET who == ensure_signed(origin)
        key == derived_key(block_number)
        data == <<TagSubmitNumber, number>>
    IN  IF ~who.ok THEN Rejected
        ELSE Outcome("Ok", Something, events,
                     offchain_index_set(offchainDb, key, encode_IndexingData(data), persisted),
                     Some([key |-> key, data |-> data, persisted |-> persisted]))

-----------------------------------------------------------------------------
(* The offchain worker *)

\* log::info!("local storage data: {:?}, {:?}", key, data)
DataLine(key, data) == [msg |-> "local storage data", key |-> Some(key), data |-> Some(data)]

\* log::info!("Error reading from local storage.")
ErrorLine == [msg |-> "Error reading from local storage.", key |-> None, data |-> None]

\* offchain_worker gone wrong: the record is cleared once it has been read
offchain_worker_clearing(db, bn) ==
    LET key == derived_key(bn)
        got == storage_ref_get(db, key)
    IN  [key |-> key,
         lines |-> IF got.ok /\ IsSome(got.value)
                   THEN <<DataLine(key, Unwrap(got.value))>>
                   ELSE <<ErrorLine>>,
         offchainDb |-> [k \in DOMAIN db \ {key} |-> db[k]]]

\* offchain_worker gone wrong: nothing is logged when the read gives no data
offchain_worker_silent(db, bn) ==
    LET key == derived_key(bn)
        got == storage_ref_get(db, key)
    IN  [key |-> key,
         lines |-> IF got.ok /\ IsSome(got.value)
                   THEN <<DataLine(key, Unwrap(got.value))>>
                   ELSE <<>>,
         offchainDb |-> db]

\* Hooks::offchain_worker at block bn: the lines it logs and the offchain
\* database it leaves
offchain_worker(db, bn) ==
    LET key == derived_key(bn)
        got == storage_ref_get(db, key)
    IN  [key |-> key,
         lines |-> IF got.ok /\ IsSome(got.value)
                   THEN <<DataLine(key, Unwrap(got.value))>>
                   ELSE <<ErrorLine>>,
         offchainDb |-> db]

-----------------------------------------------------------------------------
(* The state machine *)

NoCall ==
    [call |-> "none", origin |-> [kind |-> "None", who |-> NoAccount], arg |-> <<>>,
     ret |-> "none", set |-> None, at |-> 0, replay |-> FALSE]

\* whether a dispatch repeats the dispatch before it: the same call from the
\* same origin with the same arguments at the same height, its write kept or
\* dropped by the node as before
SameCall(call, origin, arg, set) ==
    /\ call = last.call
    /\ origin = last.origin
    /\ arg = last.arg
    /\ block_number = last.at
    /\ IsSome(set) = IsSome(last.set)
    /\ IsSome(set) => Unwrap(set).persisted = Unwrap(last.set).persisted

\* the access counts after one more write (kind "w") or read (kind "r") of key
Accessed(key, kind) ==
    [k \in DOMAIN access \cup {key} |->
        LET old == IF k \in DOMAIN access THEN access[k] ELSE [w |-> 0, r |-> 0]
        IN  IF k # key THEN old
            ELSE IF kind = "w" THEN [old EXCEPT !.w = @ + 1]
            ELSE [old EXCEPT !.r = @ + 1]]

Init ==
    /\ Something = None
    /\ events = <<>>
    /\ offchainDb = <<>>
    /\ block_number = 1
    /\ phase = "executing"
    /\ log = <<>>
    /\ ncalls = 0
    /\ nblocks = 0
    /\ last = NoCall
    /\ derived = {}
    /\ written = <<>>
    /\ access = <<>>

\* The host dispatches one call of the pallet while it executes the block.
Dispatch(call, origin, arg, out) ==
    /\ phase = "executing"
    /\ ncalls < MaxCalls
    /\ Something' = out.Something
    /\ events' = out.events
    /\ offchainDb' = out.offchainDb
    /\ ncalls' = ncalls + 1
    /\ last' = [call |-> call, origin |-> origin, arg |-> arg, ret |-> out.ret,
                set |-> out.set, at |-> block_number,
                replay |-> SameCall(call, origin, arg, out.set)]
    /\ derived' = IF IsSome(out.set)
                  THEN derived \cup {<<block_number, Unwrap(out.set).key>>}
                  ELSE derived
    /\ written' = IF IsSome(out.set) /\ Unwrap(out.set).persisted
                  THEN [h \in DOMAIN written \cup {block_number} |->
                            IF h = block_number THEN Unwrap(out.set).data ELSE written[h]]
                  ELSE written
    /\ access' = IF IsSome(out.set) THEN Accessed(Unwrap(out.set).key, "w") ELSE access
    /\ UNCHANGED <<block_number, phase, log, nblocks>>

DoSomething ==
    \E origin \in Origins, something \in U32Inputs :
        Dispatch("do_something", origin, <<something>>, do_something(origin, something))

CauseError ==
    \E origin \in Origins :
        Dispatch("cause_error", origin, <<>>, cause_error(origin))

WriteKeyToOcs ==
    \E origin \in Origins, persisted \in BOOLEAN :
        Dispatch("write_key_to_ocs", origin, <<>>, write_key_to_ocs(origin, persisted))

Extrinsic ==
    \E origin \in Origins, number \in U64Inputs, persisted \in BOOLEAN :
        Dispatch("extrinsic", origin, <<number>>, extrinsic(origin, number, persisted))

\* The block's execution ends and the node imports it (on_finalize does nothing).
ImportBlock ==
    /\ phase = "executing"
    /\ phase' = "imported"
    /\ UNCHANGED <<Something, events, offchainDb, block_number, log, ncalls, nblocks,
                   last, derived, written, access>>

\* The node runs the offchain worker for the block it has imported.
OffchainWorker ==
    /\ phase = "imported"
    /\ LET run == offchain_worker(offchainDb, block_number)
       IN  /\ log' = log \o run.lines
           /\ offchainDb' = run.offchainDb
           /\ derived' = derived \cup {<<block_number, run.key>>}
           /\ access' = Accessed(run.key, "r")
    /\ phase' = "worked"
    /\ UNCHANGED <<Something, events, block_number, ncalls, nblocks, last, written>>

\* The host moves on to a later block; the worker run of a block may be skipped.
NextBlock ==
    /\ phase \in {"imported", "worked"}
    /\ nblocks < MaxBlocks
    /\ \E stride \in Strides : block_number' = block_number + stride
    /\ nblocks' = nblocks + 1
    /\ phase' = "executing"
    /\ UNCHANGED <<Something, events, offchainDb, log, ncalls, last, derived, written,
                   access>>

\* The node stops retaining one record of its offchain database.
Prune ==
    /\ \E key \in DOMAIN offchainDb :
          /\ offchainDb' = [k \in DOMAIN offchainDb \ {key} |-> offchainDb[k]]
          /\ written' = [h \in {x \in DOMAIN written : <<x, key>> \notin derived} |->
                            written[h]]
    /\ UNCHANGED <<Something, events, block_number, phase, log, ncalls, nblocks, last,
                   derived, access>>

Next ==
    \/ DoSomething
    \/ CauseError
    \/ WriteKeyToOcs
    \/ Extrinsic
    \/ ImportBlock
    \/ OffchainWorker
    \/ NextBlock
    \/ Prune

Spec == Init /\ [][Next]_vars

-----------------------------------------------------------------------------
(* Vocabulary of the properties *)

WritePathCalls == {"write_key_to_ocs", "extrinsic"}

\* this step dispatches a call
IsDispatch == ncalls' = ncalls + 1

\* this step is the offchain worker's run for block_number
IsWorkerRun == phase = "imported" /\ phase' # phase /\ block_number' = block_number

\* the line the worker logged last
LastLine == log[Len(log)]

\* v + 1 on the two halves of a u32 below the maximum
IsSuccessor(new, old) ==
    /\ new.lo = (old.lo + 1) % Half
    /\ new.hi = old.hi + (IF old.lo = Half - 1 THEN 1 ELSE 0)

-----------------------------------------------------------------------------
(* C1 *)

\* C1: round trip. When the worker has run for a height whose record was stored
\* by the write path with payload P and is still retained, the line it logged
\* is the data line carrying the derived key of that height and exactly P.
C1_RoundTrip ==
    (phase = "worked" /\ block_number \in DOMAIN written)
        => LastLine = DataLine(derived_key(block_number), written[block_number])

-----------------------------------------------------------------------------
(* C2 *)

\* C2: key derivation is deterministic and injective. Any two keys derived so
\* far are equal exactly when their heights are equal, and every key is the
\* namespace, then "/", then four bytes that read back as the height.
C2_KeyInjective ==
    /\ \A p, q \in derived : (p[2] = q[2]) <=> (p[1] = q[1])
    /\ \A p \in derived :
          /\ Len(p[2]) = Len(ONCHAIN_TX_KEY) + 5
          /\ SubSeq(p[2], 1, Len(ONCHAIN_TX_KEY)) = ONCHAIN_TX_KEY
          /\ p[2][Len(ONCHAIN_TX_KEY) + 1] = 47
          /\ FromLe(SubSeq(p[2], Len(ONCHAIN_TX_KEY) + 2, Len(p[2]))) = p[1]

\* keys have been derived for two heights that agree in their lowest byte
C2_Witness ==
    \E p, q \in derived : q[1] = p[1] + 256

-----------------------------------------------------------------------------
(* C3 *)

\* C3: absence tolerance. A worker run that finds no record under the key of
\* its height completes, logs the error line as its diagnostic, and leaves
\* Something, the events and the offchain database as they were.
C3_AbsenceTolerated ==
    [][(IsWorkerRun /\ derived_key(block_number) \notin DOMAIN offchainDb)
          => /\ phase' = "worked"
             /\ log' = Append(log, ErrorLine)
             /\ Something' = Something
             /\ events' = events
             /\ offchainDb' = offchainDb]_vars

\* the worker has run for a height at which no write path call ever ran
C3_Witness ==
    /\ phase = "worked"
    /\ ncalls = 0
    /\ offchainDb = <<>>
    /\ log = <<ErrorLine>>

-----------------------------------------------------------------------------
(* C4 *)

\* C4: isolation. A write path call with a signed origin returns Ok and leaves
\* Something and the events alone, whether the node kept its write or dropped it.
C4_WriteIsolated ==
    [][(IsDispatch /\ last'.call \in WritePathCalls /\ last'.origin.kind = "Signed")
          => /\ last'.ret = "Ok"
             /\ Something' = Something
             /\ events' = events]_vars

\* a signed write_key_to_ocs whose write the node dropped has returned Ok after
\* a value was stored on chain
C4_Witness ==
    /\ last.call = "write_key_to_ocs"
    /\ last.origin.kind = "Signed"
    /\ IsSome(last.set) /\ ~Unwrap(last.set).persisted
    /\ last.ret = "Ok"
    /\ IsSome(Something)

-----------------------------------------------------------------------------
(* C5 *)

\* C5: replay idempotence. A signed write path call that repeats the call
\* before it (same call, arguments and height, the record of the first
\* execution still retained) derives the same key and leaves the offchain
\* database exactly as the first execution left it.
C5_ReplayIdempotent ==
    [][(/\ IsDispatch
        /\ last'.call \in WritePathCalls
        /\ last'.origin.kind = "Signed"
        /\ last'.replay
        /\ Unwrap(last.set).persisted => Unwrap(last.set).key \in DOMAIN offchainDb)
          => /\ Unwrap(last'.set).key = Unwrap(last.set).key
             /\ offchainDb' = offchainDb]_vars

\* an extrinsic call has been executed a second time with its record retained
C5_Witness ==
    /\ last.call = "extrinsic"
    /\ last.replay
    /\ last.origin.kind = "Signed"
    /\ Unwrap(last.set).persisted
    /\ Unwrap(last.set).key \in DOMAIN offchainDb

-----------------------------------------------------------------------------
(* C6 *)

\* C6: overflow boundary. A signed cause_error on a stored value fails with
\* StorageOverflow and leaves the value when it is the u32 maximum, and
\* otherwise returns Ok and stores the value plus one.
C6_OverflowBoundary ==
    [][(/\ IsDispatch
        /\ last'.call = "cause_error"
        /\ last'.origin.kind = "Signed"
        /\ IsSome(Something))
          => IF Something = Some(U32Max)
             THEN last'.ret = "StorageOverflow" /\ Something' = Something
             ELSE /\ last'.ret = "Ok"
                  /\ IsSome(Something')
                  /\ IsSuccessor(Unwrap(Something'), Unwrap(Something))]_vars

\* cause_error has failed with StorageOverflow on the stored maximum
C6_Witness ==
    /\ last.call = "cause_error"
    /\ last.ret = "StorageOverflow"
    /\ Something = Some(U32Max)

-----------------------------------------------------------------------------
(* C7 *)

\* C7: no prior state. A signed cause_error while Something is unset fails
\* with NoneValue, leaves Something unset, deposits no event and leaves the
\* offchain database alone.
C7_NoneValue ==
    [][(/\ IsDispatch
        /\ last'.call = "cause_error"
        /\ last'.origin.kind = "Signed"
        /\ Something = None)
          => /\ last'.ret = "NoneValue"
             /\ Something' = None
             /\ events' = events
             /\ offchainDb' = offchainDb]_vars

\* cause_error has failed with NoneValue
C7_Witness ==
    /\ last.call = "cause_error"
    /\ last.origin.kind = "Signed"
    /\ last.ret = "NoneValue"
    /\ Something = None

-----------------------------------------------------------------------------
(* C8 *)

\* C8: a signed do_something(x) returns Ok, after it Something holds x, and it
\* deposits exactly one event, SomethingStored with x and the caller.
C8_DoSomethingStores ==
    [][(IsDispatch /\ last'.call = "do_something" /\ last'.origin.kind = "Signed")
          => /\ last'.ret = "Ok"
             /\ Something' = Some(last'.arg[1])
             /\ events' = Append(events, SomethingStored(last'.arg[1], last'.origin.who))]_vars

\* do_something has replaced an older, different value
C8_Witness ==
    /\ last.call = "do_something"
    /\ last.ret = "Ok"
    /\ Len(events) = 2
    /\ events[1].something # events[2].something
    /\ Something = Some(events[2].something)

-----------------------------------------------------------------------------
(* C9 *)

-----------------------------------------------------------------------------
(* C10 *)

\* C10: authorization failure. Any of the four calls dispatched with an origin
\* that is not signed returns BadOrigin and leaves Something, the events and
\* the offchain database as they were.
C10_BadOriginRejected ==
    [][(IsDispatch /\ last'.origin.kind # "Signed")
          => /\ last'.ret = "BadOrigin"
             /\ Something' = Something
             /\ events' = events
             /\ offchainDb' = offchainDb]_vars

\* a Root origin has been rejected by extrinsic after a value was stored
C10_Witness ==
    /\ last.call = "extrinsic"
    /\ last.origin.kind = "Root"
    /\ last.ret = "BadOrigin"
    /\ IsSome(Something)

-----------------------------------------------------------------------------
(* C11 *)

\* C11: per-height ordering. Once the worker has read the key of a height, no
\* later step is a write path call on that key and no later step creates or
\* changes the record under it (the node may still stop retaining it): every
\* write to the key comes before the worker run, and ReadAttempted is terminal.
C11_ReadAttemptedTerminal ==
    [][\A k \in DOMAIN access :
          access[k].r > 0
            => /\ access'[k].w = access[k].w
               /\ k \in DOMAIN offchainDb'
                    => k \in DOMAIN offchainDb /\ offchainDb'[k] = offchainDb[k]]_vars

\* a height was written and then read by the worker, and a later height has
\* been written since
C11_Witness ==
    \E k1, k2 \in DOMAIN access :
        /\ k1 # k2
        /\ access[k1].w > 0 /\ access[k1].r > 0
        /\ access[k2].w > 0 /\ access[k2].r = 0
        /\ k2 = derived_key(block_number)

-----------------------------------------------------------------------------
(* C12 *)

\* C12: the worker is read-only. Whatever it finds, a worker run leaves
\* Something, the events and every record of the offchain database as they
\* were; all it does is log one line.
C12_WorkerReadOnly ==
    [][IsWorkerRun
          => /\ Something' = Something
             /\ events' = events
             /\ offchainDb' = offchainDb
             /\ Len(log') = Len(log) + 1]_vars

\* the worker has found and logged a record while a value and an event exist
C12_Witness ==
    /\ phase = "worked"
    /\ LastLine.msg = "local storage data"
    /\ derived_key(block_number) \in DOMAIN offchainDb
    /\ IsSome(Something)
    /\ events # <<>>

-----------------------------------------------------------------------------
(* C13 *)

\* C13 as claimed: the key of every height is used by at most one write path
\* call and by at most one worker run.
C13_OneWriteOneRead ==
    \A p \in derived :
        p[2] \in DOMAIN access => access[p[2]].w <= 1 /\ access[p[2]].r <= 1

\* C13 as amended: the key of every height is used by at most one worker run
\* (write path calls on it are as many as the block holds).
C13_OneReadPerHeight ==
    \A p \in derived :
        p[2] \in DOMAIN access => access[p[2]].r <= 1

\* two write path calls of one block have used the key the worker then read
C13_Witness ==
    \E k \in DOMAIN access : access[k].w = 2 /\ access[k].r = 1

-----------------------------------------------------------------------------
(* C14 *)

\* the bytes are the encoding of a whole IndexingData(tag, number)
Decodable(bytes) ==
    \E tag \in {TagWriteKey, TagSubmitNumber}, number \in U64Inputs :
        bytes = encode_vec(tag) \o encode_u64(number)

\* C14: the worker's outcome is decided by the record under the key of its
\* height. Present and decodable: it logs the data line with the key and the
\* decoded payload (Found). Present and not decodable (DecodeError), or not
\* present (Absent): it logs the error line. In each case it logs exactly that
\* one line, reads once and completes.
C14_ThreeOutcomes ==
    [][IsWorkerRun
          => LET key == derived_key(block_number)
             IN  /\ phase' = "worked"
                 /\ access'[key].r = 1
                 /\ IF key \notin DOMAIN offchainDb
                    THEN log' = Append(log, ErrorLine)
                    ELSE IF Decodable(offchainDb[key])
                    THEN \E tag \in {TagWriteKey, TagSubmitNumber}, number \in U64Inputs :
                            /\ offchainDb[key] = encode_vec(tag) \o encode_u64(number)
                            /\ log' = Append(log, DataLine(key, <<tag, number>>))
                    ELSE log' = Append(log, ErrorLine)]_vars

\* the worker has met a record that does not decode and has logged the error line
C14_Witness ==
    /\ phase = "worked"
    /\ derived_key(block_number) \in DOMAIN offchainDb
    /\ ~Decodable(offchainDb[derived_key(block_number)])
    /\ LastLine = ErrorLine

-----------------------------------------------------------------------------
(* C15 *)

\* C15: the record of write_key_to_ocs (its tag, no value) is read back by the
\* worker of its height as the data line with that tag and no value, and its
\* bytes differ from those of every record of extrinsic, whatever the number.
C15_TagOnlyFound ==
    /\ \A number \in U64Inputs :
          encode_IndexingData(<<TagWriteKey>>)
              # encode_IndexingData(<<TagSubmitNumber, number>>)
    /\ (/\ phase = "worked"
        /\ block_number \in DOMAIN written
        /\ written[block_number] = <<TagWriteKey>>)
          => /\ LastLine.msg = "local storage data"
             /\ LastLine.data = Some(<<TagWriteKey>>)

-----------------------------------------------------------------------------
(* C16 *)

\* C16: last writer wins, heights do not interfere. For every height the
\* record under its key is the encoding of the payload of the latest write
\* path call of that height whose write the node kept and still retains, and
\* the offchain database holds no record besides these.
C16_LastWriterWins ==
    /\ \A h \in DOMAIN written :
          /\ derived_key(h) \in DOMAIN offchainDb
          /\ offchainDb[derived_key(h)] = encode_IndexingData(written[h])
    /\ \A k \in DOMAIN offchainDb : \E h \in DOMAIN written : k = derived_key(h)

\* two heights hold different records, the later written after the earlier
C16_Witness ==
    \E h1, h2 \in DOMAIN written :
        /\ h2 = h1 + 256
        /\ written[h1] # written[h2]
        /\ offchainDb[derived_key(h1)] # offchainDb[derived_key(h2)]

-----------------------------------------------------------------------------
(* C17 *)

\* C17: the two storage domains do not interfere. write_key_to_ocs and
\* extrinsic leave Something and the events as they were; do_something and
\* cause_error, successful or not, leave the offchain database as it was.
C17_DomainsSeparate ==
    [][IsDispatch
          => /\ last'.call \in WritePathCalls
                  => Something' = Something /\ events' = events
             /\ last'.call \in {"do_something", "cause_error"}
                  => offchainDb' = offchainDb]_vars

\* do_something has succeeded while the offchain database holds a record
C17_Witness ==
    /\ last.call = "do_something"
    /\ last.ret = "Ok"
    /\ offchainDb # <<>>

====
